---------------------------- MODULE Spec2Model ----------------------------
(***************************************************************************)
(* A model of extract_bars_v3.py: the extraction of stacked-bar regions    *)
(* from a rendered bar chart.  The pipeline is                             *)
(*   find_bar_colours -> bar mask -> morphological closing -> connected    *)
(*   components -> size filter -> left-to-right sort.                      *)
(* Coordinates are those of the code: rows y and columns x count from 0,   *)
(* an image is a function  y |-> (x |-> <<R, G, B>>).                      *)
(***************************************************************************)
EXTENDS Integers, Sequences, FiniteSets, TLC

(***************************************************************************)
(* Bounds of the model.                                                    *)
(***************************************************************************)
\* Longest one-row strip of freely coloured pixels.
MaxPixels == 4
\* Most pixels of one colour in a strip of three colour runs.
MaxRun == 3
\* Largest height and width of a painted rectangle of the two-rectangle charts.
MaxRectH == 2
MaxRectW == 2
\* Largest vertical and horizontal background gap between the two rectangles.
MaxGapH == 9
MaxGapW == 3
\* The most calls of save_and_clip_bars in one behaviour.
MaxRuns == 3

(***************************************************************************)
(* Constants of the program.                                               *)
(***************************************************************************)
\* find_bar_colours: a pixel with all channels >= 250 is background.
WhiteLevel == 250
\* detect_bar_bounding_boxes: default colour distance threshold (60.0).
threshold == 60
\* cv2.getStructuringElement(cv2.MORPH_RECT, (3, 9)): ksize = (width, height).
KernelW == 3
KernelH == 9
\* The size filter  w > 100 and h > 100 and area > 5000.
MinWidth == 100
MinHeight == 100
MinArea == 5000
\* A pixel above a bar is background when every channel is greater than this.
NearWhiteLevel == 245
\* The scan climbs at most this many rows, and is allowed at least MaxUpFloor.
MaxUpCap == 100
MaxUpFloor == 30

(***************************************************************************)
(* Arrays.                                                                 *)
(***************************************************************************)
Height(a) == Cardinality(DOMAIN a)
Width(a) == IF Height(a) = 0 THEN 0 ELSE Cardinality(DOMAIN a[0])
Rows(a) == 0 .. Height(a) - 1
Cols(a) == 0 .. Width(a) - 1

Max(S) == CHOOSE m \in S : \A n \in S : n <= m
Min(S) == CHOOSE m \in S : \A n \in S : m <= n

RECURSIVE SumOver(_, _)
\* The sum of f[e] over the elements e of the (small) set S.
SumOver(f, S) ==
    IF S = {} THEN 0
    ELSE LET e == CHOOSE e \in S : TRUE IN f[e] + SumOver(f, S \ {e})

RECURSIVE SumRange(_, _, _)
\* The sum of f[k] for k in lo .. hi, by halves.
SumRange(f, lo, hi) ==
    IF lo > hi THEN 0
    ELSE IF lo = hi THEN f[lo]
    ELSE SumRange(f, lo, (lo + hi) \div 2) + SumRange(f, (lo + hi) \div 2 + 1, hi)

(***************************************************************************)
(* find_bar_colours                                                        *)
(***************************************************************************)
\* mask = ~(np.all(pixels >= 250, axis=1)): the pixel is kept iff not every
\* channel is >= 250.
IsBackgroundMutant(p) == p[1] > WhiteLevel /\ p[2] > WhiteLevel /\ p[3] > WhiteLevel
IsBackground(p) == p[1] >= WhiteLevel /\ p[2] >= WhiteLevel /\ p[3] >= WhiteLevel

\* The rows np.unique(coloured, axis=0) sorts: lexicographic order of the triples.
LexLess(p, q) ==
    \/ p[1] < q[1]
    \/ p[1] = q[1] /\ p[2] < q[2]
    \/ p[1] = q[1] /\ p[2] = q[2] /\ p[3] < q[3]

RECURSIVE SortedColours(_)
SortedColours(S) ==
    IF S = {} THEN << >>
    ELSE LET m == CHOOSE m \in S : \A q \in S \ {m} : LexLess(m, q)
         IN <<m>> \o SortedColours(S \ {m})

\* coloured = pixels[mask]
ColouredSet(image_array) ==
    {image_array[y][x] : y \in Rows(image_array), x \in Cols(image_array)}
        \ {p \in {image_array[y][x] : y \in Rows(image_array), x \in Cols(image_array)} :
              IsBackground(p)}

\* colours, counts = np.unique(coloured, axis=0, return_counts=True)
UniqueColours(image_array) == SortedColours(ColouredSet(image_array))

PixelCount(image_array, colour) ==
    SumRange([y \in Rows(image_array) |->
                 Cardinality({x \in Cols(image_array) : image_array[y][x] = colour})],
             0, Height(image_array) - 1)

UniqueCounts(image_array) ==
    LET colours == UniqueColours(image_array)
    IN [k \in 1 .. Len(colours) |-> PixelCount(image_array, colours[k])]

\* idx = np.argsort(-counts).  The default sort kind is not stable: among equal
\* counts the order is whatever the build's sort produces, so every permutation
\* that puts the counts in descending order is a possible result.
ArgsortDescendingMutant(counts) ==
    {idx \in [1 .. Len(counts) -> 1 .. Len(counts)] :
        /\ \A i, j \in 1 .. Len(counts) : i # j => idx[i] # idx[j]
        /\ \A i, j \in 1 .. Len(counts) : i < j => counts[idx[i]] <= counts[idx[j]]}
ArgsortDescending(counts) ==
    {idx \in [1 .. Len(counts) -> 1 .. Len(counts)] :
        /\ \A i, j \in 1 .. Len(counts) : i # j => idx[i] # idx[j]
        /\ \A i, j \in 1 .. Len(counts) : i < j => counts[idx[i]] >= counts[idx[j]]}

\* top_colours = colours[idx[:2]]
TopColours(colours, idx) ==
    [k \in 1 .. (IF Len(idx) < 2 THEN Len(idx) ELSE 2) |-> colours[idx[k]]]

(***************************************************************************)
(* detect_bar_bounding_boxes: the mask                                     *)
(***************************************************************************)
SumSquares(p, q) ==
    (p[1] - q[1]) * (p[1] - q[1]) + (p[2] - q[2]) * (p[2] - q[2])
        + (p[3] - q[3]) * (p[3] - q[3])

\* np.linalg.norm(image_array - colour, axis=2) < threshold.  The difference is
\* taken in int32 (the colours were cast by astype(np.int32)), so it does not
\* wrap; the norm is the square root of an integer s below 3 * 255^2, and for
\* the integer threshold t the comparison sqrt(s) < t is s < t * t.
NormBelowMutant(p, colour, t) == SumSquares(p, colour) <= t * t
NormBelow(p, colour, t) == SumSquares(p, colour) < t * t

\* bar_mask = (diff_ct < threshold) | (diff_le < threshold)
BarMask(image_array, ct_colour, le_colour, t) ==
    [y \in Rows(image_array) |->
        [x \in Cols(image_array) |->
            NormBelow(image_array[y][x], ct_colour, t)
                \/ NormBelow(image_array[y][x], le_colour, t)]]

\* bar_mask.astype(np.uint8)
AsUint8Mutant(bar_mask) ==
    [y \in Rows(bar_mask) |-> [x \in Cols(bar_mask) |-> IF bar_mask[y][x] THEN 0 ELSE 1]]
AsUint8(bar_mask) ==
    [y \in Rows(bar_mask) |-> [x \in Cols(bar_mask) |-> IF bar_mask[y][x] THEN 1 ELSE 0]]

(***************************************************************************)
(* cv2.morphologyEx(bar_mask_u8, cv2.MORPH_CLOSE, kernel)                  *)
(***************************************************************************)
\* The kernel is a KernelH x KernelW matrix of ones anchored at its centre:
\* the offsets (dy, dx) of its elements from the anchor.
AnchorX == KernelW \div 2
AnchorY == KernelH \div 2
KernelOffsetsMutant ==
    {<<dy, dx>> : dy \in (0 - AnchorX) .. (KernelW - 1 - AnchorX),
                  dx \in (0 - AnchorY) .. (KernelH - 1 - AnchorY)}
KernelOffsets ==
    {<<dy, dx>> : dy \in (0 - AnchorY) .. (KernelH - 1 - AnchorY),
                  dx \in (0 - AnchorX) .. (KernelW - 1 - AnchorX)}

\* The pixels of m under the kernel placed at (y, x); a pixel outside the image
\* reads as the border value (BORDER_CONSTANT with the default border value:
\* the least value for a dilation, the greatest for an erosion).
Window(m, y, x, border) ==
    {IF y + d[1] \in Rows(m) /\ x + d[2] \in Cols(m) THEN m[y + d[1]][x + d[2]] ELSE border :
        d \in KernelOffsets}

\* cv2.dilate: the maximum under the kernel.
Dilate(m) == [y \in Rows(m) |-> [x \in Cols(m) |-> Max(Window(m, y, x, 0))]]
\* cv2.erode: the minimum under the kernel.
Erode(m) == [y \in Rows(m) |-> [x \in Cols(m) |-> Min(Window(m, y, x, 255))]]

\* MORPH_CLOSE: dilate, then erode the result.
MorphCloseMutant(m) == Dilate(Erode(m))
MorphClose(m) == Erode(Dilate(m))

(***************************************************************************)
(* cv2.connectedComponentsWithStats(closed, connectivity=8)                *)
(***************************************************************************)
\* The maximal horizontal runs of nonzero pixels of row y: [y, x1, x2], the
\* run covering the columns x1 .. x2.
RowRuns(m, y) ==
    LET starts == {x \in Cols(m) : m[y][x] # 0 /\ (x = 0 \/ m[y][x - 1] = 0)}
        EndOf(s) == Min({e \in s .. Width(m) - 1 :
                            e = Width(m) - 1 \/ m[y][e + 1] = 0})
    IN {[y |-> y, x1 |-> s, x2 |-> EndOf(s)] : s \in starts}

\* Two runs hold a pair of neighbouring pixels.  With connectivity 8 the
\* neighbours of a pixel are the 8 pixels around it: runs of adjacent rows
\* touch when their column ranges overlap or meet diagonally.
RunsTouch4(a, b) ==
    /\ (a.y = b.y + 1 \/ b.y = a.y + 1)
    /\ a.x1 <= b.x2
    /\ b.x1 <= a.x2
RunsTouch(a, b) ==
    /\ (a.y = b.y + 1 \/ b.y = a.y + 1)
    /\ a.x1 <= b.x2 + 1
    /\ b.x1 <= a.x2 + 1

\* Two sets of runs touch across the rows y and y + 1.
SetsTouch(c, d, y) ==
    \E r \in {r \in c \cup d : r.y = y} :
        \E q \in {q \in c \cup d : q.y = y + 1} :
            /\ RunsTouch(r, q)
            /\ (r \in c) # (q \in c)

RECURSIVE GrowGroup(_, _, _, _)
\* The sets of rest that are linked to the group through sets that touch
\* across the rows y and y + 1 (frontier: the sets added last).
GrowGroup(group, frontier, rest, y) ==
    LET next == {c \in rest : \E d \in frontier : SetsTouch(c, d, y)}
    IN IF next = {} THEN group
       ELSE GrowGroup(group \cup next, next, rest \ next, y)

RECURSIVE MergeAcross(_, _)
\* The components of rows lo .. hi from those of lo .. y and y + 1 .. hi:
\* components that touch across the rows y and y + 1 become one.
MergeAcross(parts, y) ==
    IF parts = {} THEN {}
    ELSE LET seed == CHOOSE c \in parts : TRUE
             group == GrowGroup({seed}, {seed}, parts \ {seed}, y)
         IN {UNION group} \cup MergeAcross(parts \ group, y)

RECURSIVE Components(_, _, _)
\* The connected components of the rows lo .. hi of m, each the set of its runs.
Components(m, lo, hi) ==
    IF lo > hi THEN {}
    ELSE IF lo = hi THEN {{r} : r \in RowRuns(m, lo)}
    ELSE MergeAcross(Components(m, lo, (lo + hi) \div 2)
                        \cup Components(m, (lo + hi) \div 2 + 1, hi),
                     (lo + hi) \div 2)

\* One row of stats: [CC_STAT_LEFT, CC_STAT_TOP, CC_STAT_WIDTH, CC_STAT_HEIGHT,
\* CC_STAT_AREA] of a component given as its runs.
StatsOf(comp) ==
    LET left == Min({r.x1 : r \in comp})
        top == Min({r.y : r \in comp})
        bottom == Max({r.y : r \in comp})
    IN [x |-> left,
        y |-> top,
        w |-> Max({r.x2 : r \in comp}) - left + 1,
        h |-> bottom - top + 1,
        area |-> SumRange([y \in top .. bottom |->
                              LET row == {r \in comp : r.y = y}
                              IN SumOver([r \in row |-> r.x2 - r.x1 + 1], row)],
                          top, bottom)]

\* Row 0 of stats: the background, the zero pixels of the image.  A label
\* without pixels is reported with left = top = -1 and no extent.
BackgroundStats(m) ==
    LET ys == {y \in Rows(m) : \E x \in Cols(m) : m[y][x] = 0}
        xs == {x \in Cols(m) : \E y \in Rows(m) : m[y][x] = 0}
    IN IF ys = {} THEN [x |-> -1, y |-> -1, w |-> 0, h |-> 0, area |-> 0]
       ELSE [x |-> Min(xs),
             y |-> Min(ys),
             w |-> Max(xs) - Min(xs) + 1,
             h |-> Max(ys) - Min(ys) + 1,
             area |-> SumRange([y \in Rows(m) |->
                                   Cardinality({x \in Cols(m) : m[y][x] = 0})],
                               0, Height(m) - 1)]

\* The ways of numbering the components 1 .. n.  Which component gets which
\* label is not part of the function's contract.
Numberings(comps) ==
    {f \in [1 .. Cardinality(comps) -> comps] :
        \A i, j \in 1 .. Cardinality(comps) : i # j => f[i] # f[j]}

\* The label image for a numbering: 0 for the background.
LabelImage(m, numbering) ==
    [y \in Rows(m) |->
        [x \in Cols(m) |->
            IF m[y][x] = 0 THEN 0
            ELSE CHOOSE l \in DOMAIN numbering :
                    \E r \in numbering[l] : r.y = y /\ r.x1 <= x /\ x <= r.x2]]

\* The stats array, rows 0 .. num_labels - 1.
StatsArray(m, numbering) ==
    [l \in 0 .. Cardinality(DOMAIN numbering) |->
        IF l = 0 THEN BackgroundStats(m) ELSE StatsOf(numbering[l])]

(***************************************************************************)
(* detect_bar_bounding_boxes: filter and sort                              *)
(***************************************************************************)
\* if w > 100 and h > 100 and area > 5000
PassesFilterShortMutant(s) == s.w > MinWidth /\ s.h >= MinHeight /\ s.area > MinArea
PassesFilterMutant(s) == s.w >= MinWidth /\ s.h > MinHeight /\ s.area > MinArea
PassesFilter(s) == s.w > MinWidth /\ s.h > MinHeight /\ s.area > MinArea

\* x1, y1, x2, y2 = x, y, x + w, y + h
BoxOfMutant(s) == <<s.x, s.y, s.x + s.w - 1, s.y + s.h - 1>>
BoxOf(s) == <<s.x, s.y, s.x + s.w, s.y + s.h>>

RECURSIVE InsertByKeyMutant(_, _)
InsertByKeyMutant(sorted, b) ==
    IF sorted = << >> THEN <<b>>
    ELSE IF sorted[Len(sorted)][1] >= b[1] THEN Append(sorted, b)
    ELSE Append(InsertByKeyMutant(SubSeq(sorted, 1, Len(sorted) - 1), b), sorted[Len(sorted)])

RECURSIVE InsertByKey(_, _)
\* b put into the sorted list after every element whose key is <= its own.
InsertByKey(sorted, b) ==
    IF sorted = << >> THEN <<b>>
    ELSE IF sorted[Len(sorted)][1] <= b[1] THEN Append(sorted, b)
    ELSE Append(InsertByKey(SubSeq(sorted, 1, Len(sorted) - 1), b), sorted[Len(sorted)])

SortByLeftMutant(boxes) == boxes

RECURSIVE SortByLeft(_)
\* boxes.sort(key=lambda b: b[0]): ascending by b[0], stable.
SortByLeft(boxes) ==
    IF boxes = << >> THEN << >>
    ELSE InsertByKey(SortByLeft(SubSeq(boxes, 1, Len(boxes) - 1)), boxes[Len(boxes)])

(***************************************************************************)
(* The images the pipeline is run on.                                      *)
(***************************************************************************)
White == <<255, 255, 255>>
\* Every channel exactly at the background level, and one channel just below it.
NearWhite == <<250, 250, 250>>
OffWhite == <<250, 250, 249>>
\* Two bar colours 120 apart, the colour at distance exactly 60 from both,
\* and a colour at distance 59 from the first.
ColourA == <<100, 100, 100>>
ColourB == <<220, 100, 100>>
ColourMid == <<160, 100, 100>>
ColourNearA == <<159, 100, 100>>
\* The colours of the strips: a background colour and five that are counted.
Palette == {NearWhite, OffWhite, ColourA, ColourB, ColourMid, ColourNearA}

\* One-row images of 1 .. MaxPixels pixels, every pixel any colour of Palette.
Strips ==
    UNION {{[y \in {0} |-> strip] : strip \in [0 .. n - 1 -> Palette]} : n \in 1 .. MaxPixels}

\* A chart: a white canvas of h rows and w columns on which rectangles
\* [y, x, h, w, colour] are painted one after the other.
Paint(h, w, rects) ==
    [y \in 0 .. h - 1 |->
        [x \in 0 .. w - 1 |->
            LET over == {k \in 1 .. Len(rects) :
                            /\ rects[k].y <= y /\ y < rects[k].y + rects[k].h
                            /\ rects[k].x <= x /\ x < rects[k].x + rects[k].w}
            IN IF over = {} THEN White ELSE rects[Max(over)].colour]]

Rect(y, x, h, w, colour) == [y |-> y, x |-> x, h |-> h, w |-> w, colour |-> colour]

\* Where the second rectangle starts: with the first (gap -1), or past the
\* first's end after gap >= 0 background rows or columns.
Offset(size, gap) == IF gap < 0 THEN 0 ELSE size + gap

\* Two rectangles of the same size: the first in ColourA at the margin, the
\* second in ColourB in the same rows or below the first after a gap of 0,
\* MaxGapH - 1 or MaxGapH rows, and in the same columns or right of the first
\* after a gap of 0, MaxGapW - 1 or MaxGapW columns.  The margin around them is none, or within the
\* kernel's reach of the image border (3 rows, 1 column), or beyond it (5 rows,
\* 2 columns).
TwoRectChart(my, mx, h, w, vgap, hgap) ==
    Paint(my + Offset(h, vgap) + h + my, mx + Offset(w, hgap) + w + mx,
          <<Rect(my, mx, h, w, ColourA),
            Rect(my + Offset(h, vgap), mx + Offset(w, hgap), h, w, ColourB)>>)

TwoRectCharts ==
    {TwoRectChart(m[1], m[2], h, w, vgap, hgap) :
        m \in {<<0, 0>>, <<3, 1>>, <<5, 2>>},
        h \in 1 .. MaxRectH,
        w \in 1 .. MaxRectW,
        vgap \in {-1, 0, MaxGapH - 1, MaxGapH},
        hgap \in {-1, 0, MaxGapW - 1, MaxGapW}}

\* The bar of the gap-closing test: a bar 200 rows high (rows 5 .. 204) and 3
\* columns wide, ColourA above and ColourB below a white gap 2 rows high at
\* y = 100.
StatedGapBar ==
    Paint(210, 7, <<Rect(5, 2, 95, 3, ColourA), Rect(102, 2, 103, 3, ColourB)>>)

\* One-row images of three runs, of a, b and c pixels, in three colours that
\* are not background.
RunStrips ==
    {Paint(1, a + b + c,
           <<Rect(0, 0, 1, a, ColourNearA), Rect(0, a, 1, b, OffWhite),
             Rect(0, a + b, 1, c, ColourB)>>) :
        a \in 1 .. MaxRun, b \in 0 .. MaxRun, c \in 0 .. MaxRun}

SmallImages == Strips \cup RunStrips \cup TwoRectCharts

\* A stacked bar: the upper part in ColourA, the lower part in ColourB.
StackedBar(y, x, h, w) ==
    <<Rect(y, x, h \div 2, w, ColourA), Rect(y + h \div 2, x, h - h \div 2, w, ColourB)>>

\* The chart of the filtering test: a 150 x 150 bar and a 20 x 20 swatch.
SwatchAndBar ==
    Paint(160, 185, StackedBar(5, 5, 150, 150) \o <<Rect(5, 160, 20, 20, ColourA)>>)

\* One bar of each size around the least size the filter lets through.
EdgeSizeBars ==
    {Paint(h + 10, w + 10, StackedBar(5, 5, h, w)) : h \in {100, 101}, w \in {100, 101}}

\* The image of the colour test: 100 x 100, 6000 pixels of one colour, 4000 of
\* another.
SixtyForty == Paint(100, 100, <<Rect(0, 0, 60, 100, ColourA), Rect(60, 0, 40, 100, ColourB)>>)

\* An L: a stem 1 column wide and 101 rows high on a base of baseH rows and
\* baseW columns.  Its area is 101 + baseH * baseW - baseH.
LShape(baseH, baseW) ==
    Paint(111, baseW + 10,
          <<Rect(5, 5, 101, 1, ColourA), Rect(106 - baseH, 5, baseH, baseW, ColourB)>>)

\* Two Ls more than 100 wide and high, of area 5000 and of area 5001.
EdgeAreaShapes == {LShape(23, 214), LShape(49, 101)}

\* The chart of the ordering test: three bars over the columns 10 .. 60,
\* 200 .. 260 and 100 .. 160, painted in this order.
ThreeStatedBars ==
    Paint(160, 266,
          StackedBar(5, 10, 150, 51) \o StackedBar(5, 200, 150, 61)
              \o StackedBar(5, 100, 150, 61))

\* Three bars 101 wide and high with the left edges 10, 200 and 100; the third
\* lies below the other two.
ThreeWideBars ==
    Paint(226, 306,
          StackedBar(5, 10, 101, 101) \o StackedBar(5, 200, 101, 101)
              \o StackedBar(120, 100, 101, 101))

\* Two bars with the same left edge, one below the other.
SameLeftBars ==
    Paint(226, 116, StackedBar(5, 10, 101, 101) \o StackedBar(120, 10, 101, 101))

\* A chart in one colour, one in two colours, and a blank one.
OneColourChart == Paint(12, 6, <<Rect(5, 2, 2, 2, ColourA)>>)
TwoColourChart == Paint(12, 6, <<Rect(5, 2, 2, 2, ColourA), Rect(7, 2, 3, 2, ColourB)>>)
BlankChart == Paint(12, 6, << >>)

\* A bar in two parts with a white gap of 1 .. MaxGapH rows across its width.
GapBarCharts ==
    {TwoRectChart(m[1], m[2], h, w, vgap, -1) :
        m \in {<<0, 0>>, <<3, 1>>, <<5, 2>>},
        h \in 1 .. MaxRectH,
        w \in 1 .. MaxRectW,
        vgap \in 1 .. MaxGapH}

Charts ==
    {SwatchAndBar, SixtyForty, ThreeStatedBars, ThreeWideBars, SameLeftBars, OneColourChart,
     BlankChart, StatedGapBar}
        \cup EdgeSizeBars \cup EdgeAreaShapes \cup GapBarCharts

\* Marks above a bar: single pixels that are just not near-white (one channel
\* 245) or just near-white (every channel 246).
Ink == <<255, 255, 245>>
Pale == <<246, 246, 246>>
Mark(row, col, colour) == Rect(row, col, 1, 1, colour)

\* A bar 101 wide and high with its top at row top and its left edge at
\* column 5, and marks above it.  The scan of this bar may climb 40 rows.
AnnotatedChart(top, marks) ==
    Paint(top + 106, 111, StackedBar(top, 5, 101, 101) \o marks)

\* One mark next to the top of a bar that has 5 rows above it: in the first
\* or last column of the bar or beside it, or in row 0.
OneMarkCharts ==
    {AnnotatedChart(5, <<Mark(4, col, colour)>>) :
        col \in {4, 5, 105, 106}, colour \in {Ink, Pale}}
    \cup {AnnotatedChart(5, <<Mark(0, 5, colour)>>) : colour \in {Ink, Pale}}

\* A bar with 45 rows above it: no mark; a mark in the last row of the window
\* of the scan or in the first row above it; a mark close to the bar and one
\* far from it, in or above the window; a mark of the background's colour in
\* the window and a mark beside the bar.
FarMarkCharts ==
    {AnnotatedChart(45, << >>),
     AnnotatedChart(45, <<Mark(5, 5, Ink)>>),
     AnnotatedChart(45, <<Mark(4, 5, Ink)>>),
     AnnotatedChart(45, <<Mark(43, 50, Ink), Mark(6, 50, Ink)>>),
     AnnotatedChart(45, <<Mark(43, 50, Ink), Mark(2, 50, Ink)>>),
     AnnotatedChart(45, <<Mark(30, 50, Pale), Mark(20, 4, Ink)>>)}

\* A bar 260 high, so that the scan may climb the full 100 rows, with 102 rows
\* above it and marks 100 and 101 rows above its top.
TallBarChart ==
    Paint(367, 111, StackedBar(102, 5, 260, 101) \o <<Mark(2, 5, Ink), Mark(1, 5, Ink)>>)

AnnotatedCharts == OneMarkCharts \cup FarMarkCharts \cup {TallBarChart}

\* Pixel grids with no row, and with a row of no pixel.
ZeroGrids == {<< >>, [y \in {0} |-> << >>]}

\* The calls of save_and_clip_bars: image, include_annotation, pyperclipimg.
SaveInputs ==
    (AnnotatedCharts \X {TRUE} \X {"absent"})
        \cup ({AnnotatedChart(45, <<Mark(43, 50, Ink), Mark(6, 50, Ink)>>), ThreeWideBars}
                  \X {FALSE} \X {"absent", "present"})
        \cup ({SameLeftBars, Paint(110, 111, StackedBar(5, 5, 100, 101))}
                  \X {TRUE} \X {"present"})
        \cup (({BlankChart, OneColourChart, SixtyForty, ThreeStatedBars} \cup ZeroGrids)
                  \X {FALSE} \X {"absent", "present"})

\* Two bars with the same left edge.  The upper one has 60 rows of ColourA
\* and 41 rows of ColourB, and a block of 41 rows of ColourMid lies under it;
\* the lower one is all ColourA.  ColourB and ColourMid have as many pixels
\* each: which of them np.argsort puts second decides what the mask holds.
TiedBarsChart ==
    Paint(266, 111,
          <<Rect(5, 5, 60, 101, ColourA), Rect(65, 5, 41, 101, ColourB),
            Rect(106, 5, 41, 101, ColourMid), Rect(160, 5, 101, 101, ColourA)>>)

\* The images save_and_clip_bars is called on again and again.
RunInputs == {TiedBarsChart, TwoColourChart}

(***************************************************************************)
(* The program: save_and_clip_bars, first up to the return of              *)
(* detect_bar_bounding_boxes.                                              *)
(***************************************************************************)
VARIABLES
    pc,           \* the statement the program is at
    image_array,  \* img_arr: the decoded chart
    top_colours,  \* what find_bar_colours returned: <<ct_colour, le_colour>>
    bar_mask,     \* boolean mask of the bar-coloured pixels
    closed,       \* the mask after the closing (uint8, 0 or 1)
    num_labels,   \* number of labels, the background's label 0 included
    labels,       \* label image
    stats,        \* stats[l]: box and area of label l
    i,            \* loop variable of the filter loop
    boxes,        \* the boxes collected so far; at the end the returned list
    error,        \* the exception that ended the run, "" if none
    include_annotation,  \* the parameter of save_and_clip_bars
    pyperclipimg, \* the clipboard module: "absent" (None) or "present"
    idx_bar,      \* idx of the loop over the boxes: the number of the bar it is at
    y1,           \* the top edge of that bar, as the scan leaves it
    max_up,       \* the number of rows the scan may climb
    offset,       \* loop variable of the scan
    new_y1,       \* the topmost annotation row met so far
    scanned,      \* the rows whose pixels the scan of this bar has read
    saved,        \* the files written, in order: path and crop box
    clipboard,    \* the numbers of the bars copied to the clipboard, in order
    printed,      \* the messages printed, in order
    library,      \* what np.argsort and the labeler have answered so far
    run,          \* the number of the call of save_and_clip_bars
    results,      \* what the calls before this one were given and returned
    img,          \* the argument of crop_white_background
    cropped,      \* what crop_white_background returned
    part,         \* part[p]: the worker that classifies pixel p
    classified    \* the pixels classified so far, in the order of the steps

\* The parameters and locals of save_and_clip_bars after the detection.
save_vars == <<include_annotation, pyperclipimg, idx_bar, y1, max_up, offset, new_y1, scanned, saved,
               clipboard, printed>>

\* The calls made so far.
run_vars == <<run, results>>

\* A call of crop_white_background by itself.
crop_vars == <<img, cropped>>

\* The classification of the pixels handed out to workers.
worker_vars == <<part, classified>>

vars == <<pc, image_array, top_colours, bar_mask, closed, num_labels, labels, stats, i, boxes,
          error, save_vars, library, run_vars, crop_vars, worker_vars>>

\* The locals of detect_bar_bounding_boxes before they are assigned.
Unset == << >>

\* save_and_clip_bars is entered with the parameter include_annotation and the
\* module variable pyperclipimg as they are; its locals are not assigned yet.
InitSave(flags, modules) ==
    /\ include_annotation \in flags
    /\ pyperclipimg \in modules
    /\ idx_bar = 0
    /\ y1 = 0
    /\ max_up = 0
    /\ offset = 0
    /\ new_y1 = 0
    /\ scanned = {}
    /\ saved = << >>
    /\ clipboard = << >>
    /\ printed = << >>

\* crop_white_background is not called and no worker is at work.
NoOtherCall ==
    /\ img = Unset
    /\ cropped = Unset
    /\ part = Unset
    /\ classified = << >>

\* The locals of the detection are not assigned yet.
InitDetect ==
    /\ pc = "find_bar_colours"
    /\ top_colours = Unset
    /\ bar_mask = Unset
    /\ closed = Unset
    /\ num_labels = 0
    /\ labels = Unset
    /\ stats = Unset
    /\ i = 0
    /\ boxes = << >>
    /\ error = ""
    /\ library = [argsort |-> {}, labeler |-> {}]
    /\ run = 1
    /\ results = {}
    /\ NoOtherCall

InitOn(images) ==
    /\ image_array \in images
    /\ InitSave({FALSE}, {"absent"})
    /\ InitDetect

Init == InitOn(SmallImages)

\* np.argsort and cv2.connectedComponentsWithStats leave open which of the
\* allowed answers they give, but they are functions: asked the same again,
\* they give the answer they gave before.
SameAnswer(asked, question, answer) == \A e \in asked : e[1] = question => e[2] = answer

\* ct_colour, le_colour = find_bar_colours(img_arr), two or more colours found.
FindBarColours ==
    /\ pc = "find_bar_colours"
    /\ Len(UniqueColours(image_array)) >= 2
    /\ \E idx \in ArgsortDescending(UniqueCounts(image_array)) :
          /\ SameAnswer(library.argsort, UniqueCounts(image_array), idx)
          /\ top_colours' = TopColours(UniqueColours(image_array), idx)
          /\ library' = [library EXCEPT
                            !.argsort = @ \cup {<<UniqueCounts(image_array), idx>>}]
    /\ pc' = "bar_mask"
    /\ UNCHANGED <<image_array, bar_mask, closed, num_labels, labels, stats, i, boxes, error,
                   save_vars, run_vars, crop_vars, worker_vars>>

\* find_bar_colours with fewer than two colours: top_colours has fewer than two
\* rows and top_colours[0] or top_colours[1] raises IndexError.
FindBarColoursRaises ==
    /\ pc = "find_bar_colours"
    /\ Len(UniqueColours(image_array)) < 2
    /\ error' = "IndexError"
    /\ pc' = "raised"
    /\ UNCHANGED <<image_array, top_colours, bar_mask, closed, num_labels, labels, stats, i,
                   boxes, save_vars,
                   library, run_vars, crop_vars, worker_vars>>

\* image_array - ct_colour builds a new array: the operand keeps its pixels.
\* (An update in place, image_array -= ct_colour, would leave the difference.)
OperandAfterMutant(a, colour) ==
    [y \in Rows(a) |-> [x \in Cols(a) |->
        <<a[y][x][1] - colour[1], a[y][x][2] - colour[2], a[y][x][3] - colour[3]>>]]
OperandAfter(a, colour) == a

\* diff_ct, diff_le, bar_mask
BuildMask ==
    /\ pc = "bar_mask"
    /\ bar_mask' = BarMask(image_array, top_colours[1], top_colours[2], threshold)
    /\ image_array' = OperandAfter(OperandAfter(image_array, top_colours[1]), top_colours[2])
    /\ pc' = "closing"
    /\ UNCHANGED <<top_colours, closed, num_labels, labels, stats, i, boxes, error,
                   save_vars, library, run_vars, crop_vars, worker_vars>>

\* bar_mask_u8, kernel, closed
CloseMask ==
    /\ pc = "closing"
    /\ closed' = MorphClose(AsUint8(bar_mask))
    /\ pc' = "label"
    /\ UNCHANGED <<image_array, top_colours, bar_mask, num_labels, labels, stats, i, boxes, error,
                   save_vars, library, run_vars, crop_vars, worker_vars>>

\* boxes = []: a new list, whatever the name was bound to.
EmptyListMutant(bound) == bound
EmptyList(bound) == << >>

\* num_labels, labels, stats, _centroids = cv2.connectedComponentsWithStats(...)
\* boxes = []; the loop starts at label 1.
LabelComponents ==
    /\ pc = "label"
    /\ LET comps == Components(closed, 0, Height(closed) - 1)
       IN  \E numbering \in Numberings(comps) :
              /\ SameAnswer(library.labeler, comps, numbering)
              /\ num_labels' = Cardinality(DOMAIN numbering) + 1
              /\ labels' = LabelImage(closed, numbering)
              /\ stats' = StatsArray(closed, numbering)
              /\ library' = [library EXCEPT !.labeler = @ \cup {<<comps, numbering>>}]
    /\ i' = 1
    /\ boxes' = EmptyList(boxes)
    /\ pc' = "filter"
    /\ UNCHANGED <<image_array, top_colours, bar_mask, closed, error, save_vars, run_vars,
                   crop_vars, worker_vars>>

\* One iteration of  for i in range(1, num_labels).
FilterStep ==
    /\ pc = "filter"
    /\ i < num_labels
    /\ boxes' = IF PassesFilter(stats[i]) THEN Append(boxes, BoxOf(stats[i])) ELSE boxes
    /\ i' = i + 1
    /\ UNCHANGED <<pc, image_array, top_colours, bar_mask, closed, num_labels, labels, stats,
                   error,
                   save_vars, library, run_vars, crop_vars, worker_vars>>

\* The loop is over: boxes.sort(key=lambda b: b[0]); return boxes.
SortAndReturn ==
    /\ pc = "filter"
    /\ i >= num_labels
    /\ boxes' = SortByLeft(boxes)
    /\ pc' = "returned"
    /\ UNCHANGED <<image_array, top_colours, bar_mask, closed, num_labels, labels, stats, i,
                   error,
                   save_vars, library, run_vars, crop_vars, worker_vars>>

Next ==
    \/ FindBarColours
    \/ FindBarColoursRaises
    \/ BuildMask
    \/ CloseMask
    \/ LabelComponents
    \/ FilterStep
    \/ SortAndReturn

Spec == Init /\ [][Next]_vars

\* The program run on the charts.
InitCharts == InitOn(Charts)

SpecCharts == InitCharts /\ [][Next]_vars

(***************************************************************************)
(* detect_bar_bounding_boxes called by itself, with colours of the         *)
(* caller's choice that need not occur in the image.                       *)
(***************************************************************************)
Black == <<0, 0, 0>>
Blue == <<0, 0, 255>>

\* ct_colour and le_colour: the colours of the charts, colours more than the
\* threshold away from every pixel, and one of each.
ColourPairs == {<<ColourA, ColourB>>, <<Black, Blue>>, <<Black, ColourA>>}

DetectImages == TwoRectCharts \cup {SwatchAndBar}

InitDetectCall ==
    /\ image_array \in DetectImages
    /\ top_colours \in ColourPairs
    /\ pc = "bar_mask"
    /\ bar_mask = Unset
    /\ closed = Unset
    /\ num_labels = 0
    /\ labels = Unset
    /\ stats = Unset
    /\ i = 0
    /\ boxes = << >>
    /\ error = ""
    /\ library = [argsort |-> {}, labeler |-> {}]
    /\ run = 1
    /\ results = {}
    /\ InitSave({FALSE}, {"absent"})
    /\ NoOtherCall

NextDetect ==
    \/ BuildMask
    \/ CloseMask
    \/ LabelComponents
    \/ FilterStep
    \/ SortAndReturn

SpecDetect == InitDetectCall /\ [][NextDetect]_vars

(***************************************************************************)
(* save_and_clip_bars after the detection: the scan for the annotation     *)
(* above each bar, the crop, the file and the clipboard.                   *)
(***************************************************************************)
\* (row_pixels[:, 0] > 245) & (row_pixels[:, 1] > 245) & (row_pixels[:, 2] > 245)
IsNearWhiteMutant(p) ==
    p[1] >= NearWhiteLevel /\ p[2] >= NearWhiteLevel /\ p[3] >= NearWhiteLevel
IsNearWhite(p) == p[1] > NearWhiteLevel /\ p[2] > NearWhiteLevel /\ p[3] > NearWhiteLevel

\* row_pixels = img_arr[row, x1:x2]: the columns x1 .. x2 - 1 of the row.
RowPixels(img_arr, row, x1, x2) == [x \in x1 .. x2 - 1 |-> img_arr[row][x]]

\* np.any(~(...)): some pixel of the row segment is not near-white.
IsAnnotationRow(img_arr, row, x1, x2) ==
    LET row_pixels == RowPixels(img_arr, row, x1, x2)
    IN  \E x \in DOMAIN row_pixels : ~IsNearWhite(row_pixels[x])

\* max_up = int(min((y2 - y1) * 0.4, 100)); if max_up < 30: max_up = 30.
\* For an integer n >= 0, int(n * 0.4) is the integer part of 4 n / 10.
MaxUpMutant(top, bottom) ==
    LET m == Max({((bottom - top) * 4) \div 10, MaxUpCap})
    IN  IF m < MaxUpFloor THEN MaxUpFloor ELSE m
MaxUp(top, bottom) ==
    LET m == Min({((bottom - top) * 4) \div 10, MaxUpCap})
    IN  IF m < MaxUpFloor THEN MaxUpFloor ELSE m

\* The body of the scan: a row with annotation becomes the new top, a
\* background row leaves it alone.
NewTopMutant(top, row, hit, bar_top) == IF hit THEN row ELSE bar_top
NewTop(top, row, hit, bar_top) == IF hit THEN row ELSE top

\* out_path without the directory and the extension: bar_{idx}.
OutPathMutant(k) == <<"bar", k - 1>>
OutPath(k) == <<"bar", k>>

\* for idx, (x1, y1, x2, y2) in enumerate(boxes, start=1): the box the loop is at.
X1 == boxes[idx_bar][1]
Y1 == boxes[idx_bar][2]
X2 == boxes[idx_bar][3]
Y2 == boxes[idx_bar][4]

\* if not boxes: print("No bar regions detected."); return
NoBarsMutant ==
    /\ pc = "returned"
    /\ boxes = << >>
    /\ pc' = "done"
    /\ UNCHANGED <<image_array, top_colours, bar_mask, closed, num_labels, labels, stats, i,
                   boxes, error,
                   save_vars, library, run_vars, crop_vars, worker_vars>>
NoBars ==
    /\ pc = "returned"
    /\ boxes = << >>
    /\ printed' = Append(printed, <<"No bar regions detected.">>)
    /\ pc' = "done"
    /\ UNCHANGED <<image_array, top_colours, bar_mask, closed, num_labels, labels, stats, i,
                   boxes, error, include_annotation, pyperclipimg, idx_bar, y1, max_up, offset,
                   new_y1, scanned, saved, clipboard,
                   library, run_vars, crop_vars, worker_vars>>

\* There are boxes: height, width = img_arr.shape[:2], and enumerate(boxes,
\* start=1) starts counting.
EnterLoop ==
    /\ pc = "returned"
    /\ boxes # << >>
    /\ idx_bar' = 0
    /\ pc' = "for_boxes"
    /\ UNCHANGED <<image_array, top_colours, bar_mask, closed, num_labels, labels, stats, i,
                   boxes, error, include_annotation, pyperclipimg, y1, max_up, offset, new_y1,
                   scanned, saved, clipboard, printed, library, run_vars, crop_vars, worker_vars>>

\* The loop takes the next box; with include_annotation the scan is set up.
NextBar ==
    /\ pc = "for_boxes"
    /\ idx_bar < Len(boxes)
    /\ idx_bar' = idx_bar + 1
    /\ y1' = boxes[idx_bar + 1][2]
    /\ scanned' = {}
    /\ IF include_annotation
          THEN /\ new_y1' = boxes[idx_bar + 1][2]
               /\ max_up' = MaxUp(boxes[idx_bar + 1][2], boxes[idx_bar + 1][4])
               /\ offset' = 1
               /\ pc' = "scan"
          ELSE /\ UNCHANGED <<new_y1, max_up, offset,
                   library, run_vars, crop_vars, worker_vars>>
               /\ pc' = "crop"
    /\ UNCHANGED <<image_array, top_colours, bar_mask, closed, num_labels, labels, stats, i,
                   boxes, error, include_annotation, pyperclipimg, saved, clipboard, printed,
                   library, run_vars, crop_vars, worker_vars>>

\* One iteration of  for offset in range(1, max_up + 1)  that does not break.
ScanRow ==
    /\ pc = "scan"
    /\ offset <= max_up
    /\ y1 - offset >= 0
    /\ LET row == y1 - offset
       IN  /\ new_y1' = NewTop(new_y1, row, IsAnnotationRow(image_array, row, X1, X2), y1)
           /\ scanned' = scanned \cup {row}
    /\ offset' = offset + 1
    /\ UNCHANGED <<pc, image_array, top_colours, bar_mask, closed, num_labels, labels, stats, i,
                   boxes, error, include_annotation, pyperclipimg, idx_bar, y1, max_up, saved,
                   clipboard, printed,
                   library, run_vars, crop_vars, worker_vars>>

\* The scan ends, by the range or by the break at row < 0: y1 = max(0, new_y1).
ScanEnd ==
    /\ pc = "scan"
    /\ offset > max_up \/ y1 - offset < 0
    /\ y1' = Max({0, new_y1})
    /\ pc' = "crop"
    /\ UNCHANGED <<image_array, top_colours, bar_mask, closed, num_labels, labels, stats, i,
                   boxes, error, include_annotation, pyperclipimg, idx_bar, max_up, offset,
                   new_y1, scanned, saved, clipboard, printed,
                   library, run_vars, crop_vars, worker_vars>>

\* The box of the crop: (x1, y1, x2, y2) with the y1 the scan may have moved.
CropBoxMutant(box, top) == <<box[1], top, box[3], box[4] - (box[2] - top)>>
CropBox(box, top) == <<box[1], top, box[3], box[4]>>

\* bar_img = img_pil.crop((x1, y1, x2, y2)); bar_img.save(out_path); print.
SaveBar ==
    /\ pc = "crop"
    /\ saved' = Append(saved, [path |-> OutPath(idx_bar), box |-> CropBox(boxes[idx_bar], y1)])
    /\ printed' = Append(printed, <<"Saved", OutPath(idx_bar)>>)
    /\ pc' = IF pyperclipimg = "absent" THEN "for_boxes" ELSE "copy"
    /\ UNCHANGED <<image_array, top_colours, bar_mask, closed, num_labels, labels, stats, i,
                   boxes, error, include_annotation, pyperclipimg, idx_bar, y1, max_up, offset,
                   new_y1, scanned, clipboard,
                   library, run_vars, crop_vars, worker_vars>>

\* pyperclipimg.copy(bar_img) returns.
CopyBar ==
    /\ pc = "copy"
    /\ clipboard' = Append(clipboard, idx_bar)
    /\ printed' = Append(printed, <<"Copied", idx_bar>>)
    /\ pc' = "for_boxes"
    /\ UNCHANGED <<image_array, top_colours, bar_mask, closed, num_labels, labels, stats, i,
                   boxes, error, include_annotation, pyperclipimg, idx_bar, y1, max_up, offset,
                   new_y1, scanned, saved,
                   library, run_vars, crop_vars, worker_vars>>

\* pyperclipimg.copy(bar_img) raises: the exception is caught and reported.
CopyBarFailsMutant ==
    /\ pc = "copy"
    /\ error' = "Exception"
    /\ pc' = "raised"
    /\ UNCHANGED <<image_array, top_colours, bar_mask, closed, num_labels, labels, stats, i,
                   boxes, save_vars, library, run_vars, crop_vars, worker_vars>>
CopyBarFails ==
    /\ pc = "copy"
    /\ printed' = Append(printed, <<"Failed to copy", idx_bar>>)
    /\ pc' = "for_boxes"
    /\ UNCHANGED <<image_array, top_colours, bar_mask, closed, num_labels, labels, stats, i,
                   boxes, error, include_annotation, pyperclipimg, idx_bar, y1, max_up, offset,
                   new_y1, scanned, saved, clipboard,
                   library, run_vars, crop_vars, worker_vars>>

\* The loop over the boxes is over and save_and_clip_bars returns.
LoopDone ==
    /\ pc = "for_boxes"
    /\ idx_bar >= Len(boxes)
    /\ pc' = "done"
    /\ UNCHANGED <<image_array, top_colours, bar_mask, closed, num_labels, labels, stats, i,
                   boxes, error,
                   save_vars, library, run_vars, crop_vars, worker_vars>>

NextSave ==
    \/ Next
    \/ NoBars
    \/ EnterLoop
    \/ NextBar
    \/ ScanRow
    \/ ScanEnd
    \/ SaveBar
    \/ CopyBar
    \/ CopyBarFails
    \/ LoopDone

\* save_and_clip_bars from its entry to its return.
InitSaveOn ==
    \E input \in SaveInputs :
        /\ image_array = input[1]
        /\ InitSave({input[2]}, {input[3]})
        /\ InitDetect

SpecSave == InitSaveOn /\ [][NextSave]_vars

\* The outcome of the call that is over: the exception, or the boxes.
Outcome == IF error # "" THEN <<error>> ELSE boxes

\* save_and_clip_bars has returned or raised and is called once more, on any
\* image.  The call is recorded; the names of the new call are bound to
\* nothing the code may rely on, so they keep what the last call left.
CallAgain ==
    /\ pc \in {"done", "raised"}
    /\ run < MaxRuns
    /\ results' = results \cup {[image |-> image_array, outcome |-> Outcome]}
    /\ run' = run + 1
    /\ image_array' \in RunInputs
    /\ error' = ""
    /\ saved' = << >>
    /\ clipboard' = << >>
    /\ printed' = << >>
    /\ pc' = "find_bar_colours"
    /\ UNCHANGED <<top_colours, bar_mask, closed, num_labels, labels, stats, i, boxes,
                   include_annotation, pyperclipimg, idx_bar, y1, max_up, offset, new_y1,
                   scanned, library, crop_vars, worker_vars>>

\* Calls on images of two colours or more, with include_annotation off and
\* without the clipboard module.
NextRuns ==
    \/ FindBarColours
    \/ BuildMask
    \/ CloseMask
    \/ LabelComponents
    \/ FilterStep
    \/ SortAndReturn
    \/ NoBars
    \/ EnterLoop
    \/ NextBar
    \/ SaveBar
    \/ LoopDone
    \/ CallAgain

InitRuns == InitOn(RunInputs)

SpecRuns == InitRuns /\ [][NextRuns]_vars

(***************************************************************************)
(* crop_white_background                                                   *)
(***************************************************************************)
MaxCropSide == 3
PureWhiteLevel == 250

\* r > 250 and g > 250 and b > 250
IsPureWhite(p) == p[1] > PureWhiteLevel /\ p[2] > PureWhiteLevel /\ p[3] > PureWhiteLevel

\* The body of the two loops for the pixel at (x, y).
ScanStep(b, x, y, p) ==
    IF IsPureWhite(p) THEN b
    ELSE [left |-> IF x < b.left THEN x ELSE b.left,
          top |-> IF y < b.top THEN y ELSE b.top,
          right |-> IF x > b.right THEN x ELSE b.right,
          bottom |-> IF y > b.bottom THEN y ELSE b.bottom]

\* left, top, right, bottom after the first n pixels in the order of the
\* loops, row by row; before the first, width, height, 0, 0.
RECURSIVE ScanPixels(_, _)
ScanPixels(im, n) ==
    IF n = 0 THEN [left |-> Width(im), top |-> Height(im), right |-> 0, bottom |-> 0]
    ELSE LET y == (n - 1) \div Width(im)
             x == (n - 1) % Width(im)
         IN  ScanStep(ScanPixels(im, n - 1), x, y, im[y][x])

\* img.crop(bbox): the pixels of the box; what lies outside the image is 0.
Crop(im, bbox) ==
    [y \in 0 .. bbox[4] - bbox[2] - 1 |->
        [x \in 0 .. bbox[3] - bbox[1] - 1 |->
            IF y + bbox[2] \in Rows(im) /\ x + bbox[1] \in Cols(im)
                THEN im[y + bbox[2]][x + bbox[1]]
                ELSE Black]]

CropWhiteBackground(im) ==
    LET b == ScanPixels(im, Height(im) * Width(im))
    IN  IF b.right < b.left \/ b.bottom < b.top THEN im
        ELSE Crop(im, <<b.left, b.top, b.right + 1, b.bottom + 1>>)

\* The colours of the images to crop: the darkest white and a colour with
\* one channel darker than that.
LeastWhite == <<251, 251, 251>>
AlmostWhite == <<251, 250, 251>>

\* Every image of up to MaxCropSide rows and columns in these colours, the
\* image of size (0, 0) and those of width 0 among them.
CropImages ==
    UNION {[0 .. h - 1 -> [0 .. w - 1 -> {LeastWhite, AlmostWhite}]] :
               h \in 0 .. MaxCropSide, w \in 0 .. MaxCropSide}

InitCrop ==
    /\ img \in CropImages
    /\ cropped = Unset
    /\ pc = "crop_white_background"
    /\ image_array = Unset
    /\ top_colours = Unset
    /\ bar_mask = Unset
    /\ closed = Unset
    /\ num_labels = 0
    /\ labels = Unset
    /\ stats = Unset
    /\ i = 0
    /\ boxes = << >>
    /\ error = ""
    /\ library = [argsort |-> {}, labeler |-> {}]
    /\ run = 1
    /\ results = {}
    /\ InitSave({FALSE}, {"absent"})
    /\ part = Unset
    /\ classified = << >>

\* crop_white_background(img) runs and returns.
CallCrop ==
    /\ pc = "crop_white_background"
    /\ cropped' = CropWhiteBackground(img)
    /\ pc' = "cropped"
    /\ UNCHANGED <<image_array, top_colours, bar_mask, closed, num_labels, labels, stats, i,
                   boxes, error, save_vars, library, run_vars, img, worker_vars>>

NextCrop == CallCrop

SpecCrop == InitCrop /\ [][NextCrop]_vars

(***************************************************************************)
(* The mask built by workers: the pixels are handed out to NumWorkers      *)
(* workers, and each worker runs the statements that build the mask on     *)
(* its pixels, one pixel at a step, the workers taking steps in any order. *)
(***************************************************************************)
NumWorkers == 2
MaxWorkPixels == 3

Workers == 1 .. NumWorkers

\* diff_ct, diff_le and bar_mask computed for an array of this one pixel.
ClassifyPixel(pixel, ct_colour, le_colour) ==
    BarMask([y \in {0} |-> [x \in {0} |-> pixel]], ct_colour, le_colour, threshold)[0][0]

\* The worker stores its result at its pixel of the mask.
WrittenMutant(mask, p, v) ==
    [y \in Rows(mask) |-> [x \in Cols(mask) |-> IF x >= p[2] THEN v ELSE mask[y][x]]]
Written(mask, p, v) == [mask EXCEPT ![p[1]][p[2]] = v]

\* One-row images of up to MaxWorkPixels pixels: background, a bar colour and
\* a colour at distance 60 from both bar colours.
WorkerImages ==
    UNION {{[y \in {0} |-> strip] : strip \in [0 .. n - 1 -> {White, ColourA, ColourMid}]} :
               n \in 1 .. MaxWorkPixels}

\* The mask before any worker has written to it: allocated, all of one value.
BlankMasks(a) == {[y \in Rows(a) |-> [x \in Cols(a) |-> v]] : v \in BOOLEAN}

InitWorkers ==
    /\ image_array \in WorkerImages
    /\ top_colours = <<ColourA, ColourB>>
    /\ pc = "bar_mask"
    /\ bar_mask \in BlankMasks(image_array)
    /\ part \in [Rows(image_array) \X Cols(image_array) -> Workers]
    /\ classified = << >>
    /\ closed = Unset
    /\ num_labels = 0
    /\ labels = Unset
    /\ stats = Unset
    /\ i = 0
    /\ boxes = << >>
    /\ error = ""
    /\ library = [argsort |-> {}, labeler |-> {}]
    /\ run = 1
    /\ results = {}
    /\ InitSave({FALSE}, {"absent"})
    /\ img = Unset
    /\ cropped = Unset

\* Worker w classifies one of its pixels that is not classified yet.
Classify(w) ==
    /\ pc = "bar_mask"
    /\ \E p \in DOMAIN part :
          /\ part[p] = w
          /\ \A j \in 1 .. Len(classified) : classified[j] # p
          /\ bar_mask' = Written(bar_mask, p,
                                 ClassifyPixel(image_array[p[1]][p[2]],
                                               top_colours[1], top_colours[2]))
          /\ classified' = Append(classified, p)
    /\ UNCHANGED <<pc, image_array, top_colours, closed, num_labels, labels, stats, i, boxes,
                   error, save_vars, library, run_vars, crop_vars, part>>

\* Every pixel is classified: the mask is complete.
JoinWorkers ==
    /\ pc = "bar_mask"
    /\ Len(classified) = Cardinality(DOMAIN part)
    /\ pc' = "closing"
    /\ UNCHANGED <<image_array, top_colours, bar_mask, closed, num_labels, labels, stats, i,
                   boxes, error, save_vars, library, run_vars, crop_vars, worker_vars>>

NextWorkers ==
    \/ \E w \in Workers : Classify(w)
    \/ JoinWorkers

SpecWorkers == InitWorkers /\ [][NextWorkers]_vars

(***************************************************************************)
(* What the claims speak of, stated on the image itself.                   *)
(***************************************************************************)
Positions(a) == Rows(a) \X Cols(a)
At(a, p) == a[p[1]][p[2]]

\* Number of pixels of the image that have exactly this colour.
Occurrences(colour) == Cardinality({p \in Positions(image_array) : At(image_array, p) = colour})

\* The colours of the image that have a channel below 250.
NonBackgroundColours ==
    {c \in {At(image_array, p) : p \in Positions(image_array)} : \E k \in 1 .. 3 : c[k] < 250}

ColoursReturned == pc \notin {"find_bar_colours", "raised"}

\* C1: for an image with at least two distinct non-background colours,
\* find_bar_colours returns two different non-background colours of the image,
\* the first at least as frequent as the second and the second at least as
\* frequent as every other non-background colour; it does not fail.
C1_TopTwoByCount ==
    (pc # "find_bar_colours" /\ Cardinality(NonBackgroundColours) >= 2) =>
        /\ pc # "raised"
        /\ Len(top_colours) = 2
        /\ top_colours[1] \in NonBackgroundColours
        /\ top_colours[2] \in NonBackgroundColours
        /\ top_colours[1] # top_colours[2]
        /\ Occurrences(top_colours[1]) >= Occurrences(top_colours[2])
        /\ \A c \in NonBackgroundColours \ {top_colours[1], top_colours[2]} :
              Occurrences(top_colours[2]) >= Occurrences(c)

\* Three non-background colours with three different counts were ranked.
C1_Witness ==
    /\ ColoursReturned
    /\ \E c \in NonBackgroundColours :
          /\ Occurrences(top_colours[1]) > Occurrences(top_colours[2])
          /\ Occurrences(top_colours[2]) > Occurrences(c)

\* C2: a colour is left out of the count iff all three of its channels are
\* >= 250: no returned colour has all channels >= 250, however frequent it is,
\* and every colour with a channel below 250 took part in the ranking (it is
\* returned, or it is no more frequent than the second returned colour).
C2_BackgroundExcluded ==
    ColoursReturned =>
        /\ \A k \in 1 .. 2 : \E ch \in 1 .. 3 : top_colours[k][ch] < 250
        /\ \A p \in Positions(image_array) :
              (\E ch \in 1 .. 3 : At(image_array, p)[ch] < 250) =>
                  \/ At(image_array, p) \in {top_colours[1], top_colours[2]}
                  \/ Occurrences(At(image_array, p)) <= Occurrences(top_colours[2])

\* <<250, 250, 250>> is the most frequent colour of the image and is not
\* returned, while <<250, 250, 249>> is.
C2_Witness ==
    /\ ColoursReturned
    /\ Occurrences(NearWhite) > Occurrences(top_colours[1])
    /\ OffWhite \in {top_colours[1], top_colours[2]}

\* The square of the Euclidean distance of two colours in RGB space.
Distance2(c, d) ==
    SumOver([k \in 1 .. 3 |-> (c[k] - d[k]) * (c[k] - d[k])], 1 .. 3)

MaskBuilt == pc \in {"closing", "label", "filter", "returned"}

\* C3: a pixel is true in the bar mask iff its distance to the first or to the
\* second reference colour is strictly below the threshold 60 (a pixel at
\* distance exactly 60 from both is false), and two pixels of the same colour
\* get the same mask value.
C3_MaskIffWithinThreshold ==
    MaskBuilt =>
        /\ \A p \in Positions(image_array) :
              At(bar_mask, p) <=>
                  \/ Distance2(At(image_array, p), top_colours[1]) < 60 * 60
                  \/ Distance2(At(image_array, p), top_colours[2]) < 60 * 60
        /\ \A c \in {At(image_array, p) : p \in Positions(image_array)} :
              Cardinality({At(bar_mask, p) :
                              p \in {q \in Positions(image_array) : At(image_array, q) = c}}) = 1

\* A pixel at distance exactly 60 from both reference colours is false and a
\* pixel at distance 59 from one of them is true.
C3_Witness ==
    /\ MaskBuilt
    /\ \E p, q \in Positions(image_array) :
          /\ Distance2(At(image_array, p), top_colours[1]) = 60 * 60
          /\ Distance2(At(image_array, p), top_colours[2]) = 60 * 60
          /\ ~At(bar_mask, p)
          /\ Distance2(At(image_array, q), top_colours[1]) = 59 * 59
          /\ At(bar_mask, q)

MaskClosed == pc \in {"label", "filter", "returned"}

\* The pixels of the image the 3 x 9 structuring element centred on p covers:
\* at most 1 column and at most 4 rows away.
UnderElement(p) ==
    {q \in (p[1] - 4 .. p[1] + 4) \X (p[2] - 1 .. p[2] + 1) :
        q[1] \in Rows(image_array) /\ q[2] \in Cols(image_array)}

\* C4: the closed mask is the erosion of the dilation of the bar mask by the
\* rectangle 3 wide and 9 tall (a pixel is set by the dilation iff the element
\* centred on it covers a mask pixel, and kept by the erosion iff every pixel
\* the element centred on it covers is set), and it has the mask's height and
\* width.
C4_ClosingIsDilateThenErode ==
    MaskClosed =>
        /\ Height(closed) = Height(bar_mask)
        /\ Width(closed) = Width(bar_mask)
        /\ \A p \in Positions(image_array) :
              At(closed, p) =
                  IF \A q \in UnderElement(p) : \E r \in UnderElement(q) : At(bar_mask, r)
                  THEN 1 ELSE 0

\* The closing filled a background pixel, and the erosion removed a pixel the
\* dilation had set.
C4_Witness ==
    /\ MaskClosed
    /\ \E p, q \in Positions(image_array) :
          /\ ~At(bar_mask, p)
          /\ At(closed, p) = 1
          /\ \E r \in UnderElement(q) : At(bar_mask, r)
          /\ At(closed, q) = 0

Labelled == pc \in {"filter", "returned"}

\* The columns and rows of the true pixels of the bar mask.
MaskColumns == {x \in Cols(bar_mask) : \E y \in Rows(bar_mask) : bar_mask[y][x]}
MaskRows == {y \in Rows(bar_mask) : \E x \in Cols(bar_mask) : bar_mask[y][x]}

\* The true pixels of the mask in the columns xs are a filled rectangle.
SolidIn(xs) ==
    LET ys == {y \in Rows(bar_mask) : \E x \in xs : bar_mask[y][x]}
    IN /\ xs = Min(xs) .. Max(xs)
       /\ ys = Min(ys) .. Max(ys)
       /\ \A y \in ys : \A x \in xs : bar_mask[y][x]

\* The columns g1 .. g2 are background over the whole height of the mask, at
\* least 3 columns wide, with mask pixels on both sides.
SeparatingColumns(g1, g2) ==
    /\ g2 - g1 + 1 >= 3
    /\ (g1 .. g2) \cap MaskColumns = {}
    /\ \E x \in MaskColumns : x < g1
    /\ \E x \in MaskColumns : x > g2

\* C6: when a run of at least 3 background columns separates the mask pixels
\* on its left from those on its right, the closed mask is empty in these
\* columns and every component lies wholly on one side, so there are at least
\* two components, and exactly two when each side is one filled rectangle.
C6_AdjacentBarsNotMerged ==
    Labelled =>
        \A g1, g2 \in Cols(bar_mask) :
            SeparatingColumns(g1, g2) =>
                /\ \A y \in Rows(closed) : \A x \in g1 .. g2 : closed[y][x] = 0
                /\ \A l \in 1 .. num_labels - 1 :
                      stats[l].x + stats[l].w <= g1 \/ stats[l].x > g2
                /\ \E l \in 1 .. num_labels - 1 : stats[l].x + stats[l].w <= g1
                /\ \E l \in 1 .. num_labels - 1 : stats[l].x > g2
                /\ (SolidIn({x \in MaskColumns : x < g1}) /\ SolidIn({x \in MaskColumns : x > g2}))
                      => num_labels - 1 = 2

\* Two bars that share rows, exactly 3 background columns apart, were labelled.
C6_Witness ==
    /\ Labelled
    /\ \E g1 \in Cols(bar_mask) :
          /\ g1 + 2 \in Cols(bar_mask)
          /\ SeparatingColumns(g1, g1 + 2)
          /\ \E y \in Rows(bar_mask) : bar_mask[y][g1 - 1] /\ bar_mask[y][g1 + 3]
    /\ num_labels - 1 = 2

\* The nonzero pixels of the closed mask.
Foreground == {p \in Positions(closed) : At(closed, p) # 0}

\* p and q are different pixels at most one row and one column apart.
Neighbours8(p, q) ==
    /\ p # q
    /\ p[1] - q[1] \in -1 .. 1
    /\ p[2] - q[2] \in -1 .. 1

RECURSIVE Reachable8(_, _)
\* The foreground pixels joined to a pixel of seen by a path of 8-neighbour
\* foreground pixels (frontier: the pixels found last).
Reachable8(seen, frontier) ==
    LET next == {q \in Foreground \ seen : \E p \in frontier : Neighbours8(p, q)}
    IN IF next = {} THEN seen ELSE Reachable8(seen \cup next, next)

WithLabel(l) == {p \in Positions(closed) : At(labels, p) = l}

\* C7: the labels 1 .. num_labels - 1 are exactly the maximal 8-connected sets
\* of nonzero pixels of the closed mask (the pixels of a label are those a
\* path of 8-neighbours joins to one of them; the zero pixels have label 0),
\* and for each label the reported box (x1, y1, x2, y2) is the least box
\* around its pixels in half-open form and the reported area is their number.
C7_LabelsAreComponents ==
    Labelled =>
        /\ \A p \in Positions(closed) :
              /\ At(labels, p) \in 0 .. num_labels - 1
              /\ At(labels, p) = 0 <=> At(closed, p) = 0
        /\ \A l \in 1 .. num_labels - 1 :
              LET pixels == WithLabel(l)
                  seed == CHOOSE p \in pixels : TRUE
                  box == BoxOf(stats[l])
              IN /\ pixels # {}
                 /\ pixels = Reachable8({seed}, {seed})
                 /\ box[1] = Min({p[2] : p \in pixels})
                 /\ box[2] = Min({p[1] : p \in pixels})
                 /\ box[3] = Max({p[2] : p \in pixels}) + 1
                 /\ box[4] = Max({p[1] : p \in pixels}) + 1
                 /\ box[3] = box[1] + stats[l].w
                 /\ box[4] = box[2] + stats[l].h
                 /\ stats[l].area = Cardinality(pixels)

\* Two pixels that touch only by a corner (the other two pixels of their 2 x 2
\* block are background) carry the same label.
C7_Witness ==
    /\ Labelled
    /\ \E p, q \in Foreground :
          /\ q[1] = p[1] + 1
          /\ q[2] = p[2] + 1
          /\ closed[p[1]][q[2]] = 0
          /\ closed[q[1]][p[2]] = 0
          /\ At(labels, p) = At(labels, q)

\* The mask is one bar cut by one run of fewer than 9 background rows across
\* its whole width.
IsGappedBar ==
    LET gap == (Min(MaskRows) .. Max(MaskRows)) \ MaskRows
    IN /\ MaskRows # {}
       /\ MaskColumns = Min(MaskColumns) .. Max(MaskColumns)
       /\ \A y \in MaskRows : \A x \in MaskColumns : bar_mask[y][x]
       /\ gap # {}
       /\ gap = Min(gap) .. Max(gap)
       /\ Cardinality(gap) < 9

\* C5: a single bar whose mask is interrupted by a horizontal gap of fewer than
\* 9 rows across its full width is one component after closing and labelling,
\* with a box that covers the bar's columns and its full height; the bar of
\* height 200 with the 2-row gap at y = 100 is reported 200 high.
C5_GapClosedIntoOneComponent ==
    (Labelled /\ IsGappedBar) =>
        /\ num_labels - 1 = 1
        /\ BoxOf(stats[1])[1] <= Min(MaskColumns)
        /\ BoxOf(stats[1])[2] <= Min(MaskRows)
        /\ BoxOf(stats[1])[3] >= Max(MaskColumns) + 1
        /\ BoxOf(stats[1])[4] >= Max(MaskRows) + 1
        /\ image_array = StatedGapBar => (stats[1].y = 5 /\ stats[1].h = 200)

\* The bar of height 200 with the gap at y = 100 was labelled.
C5_Witness ==
    /\ Labelled
    /\ image_array = StatedGapBar
    /\ IsGappedBar
    /\ ~bar_mask[100][3]
    /\ ~bar_mask[101][3]
    /\ closed[100][3] = 1

\* The component with label l is wider than 100, higher than 100 and larger
\* than 5000 pixels.
Survives(l) == stats[l].w > 100 /\ stats[l].h > 100 /\ stats[l].area > 5000

\* The labels the filter loop has gone through.
LabelsFiltered == 1 .. (IF pc = "returned" THEN num_labels - 1 ELSE i - 1)

\* C8: the boxes kept are those of the components wider than 100, higher than
\* 100 and larger than 5000 pixels, one box each, and no other; of the 20 x 20
\* swatch and the 150 x 150 bar only the bar is kept.
C8_KeptIffAboveThresholds ==
    Labelled =>
        /\ {boxes[k] : k \in 1 .. Len(boxes)}
              = {BoxOf(stats[l]) : l \in {l \in LabelsFiltered : Survives(l)}}
        /\ Len(boxes) = Cardinality({l \in LabelsFiltered : Survives(l)})
        /\ (pc = "returned" /\ image_array = SwatchAndBar) => boxes = << <<5, 5, 155, 155>> >>

\* The swatch and the bar were both components and one box was returned.
C8_Witness ==
    /\ pc = "returned"
    /\ \E l \in 1 .. num_labels - 1 :
          stats[l].w = 20 /\ stats[l].h = 20 /\ stats[l].area = 400
    /\ \E l \in 1 .. num_labels - 1 :
          stats[l].w = 150 /\ stats[l].h = 150 /\ stats[l].area = 22500
    /\ Len(boxes) = 1

\* C9: the returned list is ascending by left edge x1 (each box's x1 is <= the
\* next one's) and holds the surviving components' boxes, each as often as
\* there are surviving components with this box.
C9_SortedByLeftEdge ==
    pc = "returned" =>
        /\ \A k \in 1 .. Len(boxes) - 1 : boxes[k][1] <= boxes[k + 1][1]
        /\ \A b \in {boxes[k] : k \in 1 .. Len(boxes)}
                    \cup {BoxOf(stats[l]) : l \in {l \in 1 .. num_labels - 1 : Survives(l)}} :
              Cardinality({k \in 1 .. Len(boxes) : boxes[k] = b})
                  = Cardinality({l \in 1 .. num_labels - 1 : Survives(l) /\ BoxOf(stats[l]) = b})

\* Three components survived and their label order was not left to right.
C9_Witness ==
    /\ pc = "returned"
    /\ Len(boxes) = 3
    /\ \E l, m \in 1 .. num_labels - 1 :
          l < m /\ Survives(l) /\ Survives(m) /\ stats[l].x > stats[m].x

\* C10 as stated: for the chart with three bars over the x-ranges [10, 60],
\* [200, 260] and [100, 160] three regions are returned, starting at x = 10,
\* 100 and 200.
C10_Original ==
    (pc = "returned" /\ image_array = ThreeStatedBars) =>
        /\ Len(boxes) = 3
        /\ boxes[1][1] = 10
        /\ boxes[2][1] = 100
        /\ boxes[3][1] = 200

\* C10 amended: the three bars over the x-ranges [10, 60], [200, 260] and
\* [100, 160] are at most 61 wide, none passes the filter and no region is
\* returned; three bars with the left edges 10, 200 and 100 that pass the
\* filter are returned in the order of starting x = 10, 100, 200.
C10_OrderOfThreeBars ==
    pc = "returned" =>
        /\ image_array = ThreeStatedBars =>
              /\ {stats[l].x : l \in 1 .. num_labels - 1} = {10, 100, 200}
              /\ boxes = << >>
        /\ image_array = ThreeWideBars =>
              /\ Len(boxes) = 3
              /\ boxes[1][1] = 10
              /\ boxes[2][1] = 100
              /\ boxes[3][1] = 200

\* The three wide bars were returned, labelled in the order 10, 200, 100.
C10_Witness ==
    /\ pc = "returned"
    /\ image_array = ThreeWideBars
    /\ stats[1].x = 10
    /\ stats[2].x = 200
    /\ stats[3].x = 100
    /\ Len(boxes) = 3

(***************************************************************************)
(* The outcomes of save_and_clip_bars.                                     *)
(***************************************************************************)
IsEmptyGrid == Height(image_array) = 0 \/ Width(image_array) = 0
IsAllWhite == ~IsEmptyGrid /\ \A p \in Positions(image_array) : At(image_array, p) = White
NoBarsMessage == <<"No bar regions detected.">>
InLoop == pc \in {"for_boxes", "scan", "crop", "copy"}
DetectionReturned == pc \in {"returned", "done"} \/ InLoop
NoOutput == saved = << >> /\ clipboard = << >>

\* C11: an all-white image ends with the no-bars outcome and an empty list of
\* regions, and never with an exception.
C11_AllWhiteEndsWithNoBars ==
    IsAllWhite =>
        /\ error = ""
        /\ pc # "raised"
        /\ boxes = << >>
        /\ (pc = "done" => printed = <<NoBarsMessage>> /\ NoOutput)

\* C12: when no component passes the filter, the detection returns the empty
\* list and save_and_clip_bars prints the no-bars message without raising,
\* writes no file, copies nothing and never enters the loop over the boxes.
C12_NoSurvivorNoOutput ==
    (DetectionReturned /\ \A l \in 1 .. num_labels - 1 : ~Survives(l)) =>
        /\ boxes = << >>
        /\ error = ""
        /\ ~InLoop
        /\ NoOutput
        /\ (pc = "done" => printed = <<NoBarsMessage>>)

\* The mask had components, none passed, and the run is over with a clipboard
\* at hand.
C12_Witness ==
    /\ pc = "done"
    /\ num_labels > 1
    /\ \A l \in 1 .. num_labels - 1 : ~Survives(l)
    /\ pyperclipimg = "present"
    /\ printed = <<NoBarsMessage>>

\* C13: with fewer than two distinct non-background colours find_bar_colours
\* returns a colour of the image twice or fails with InsufficientColors, and
\* with nothing else.
C13_FewColoursDuplicateOrInsufficient ==
    (Cardinality(NonBackgroundColours) < 2 /\ pc # "find_bar_colours") =>
        \/ pc = "raised" /\ error = "InsufficientColors"
        \/ /\ pc # "raised"
           /\ error = ""
           /\ top_colours[2] = top_colours[1]
           /\ top_colours[1] \in NonBackgroundColours

\* C14: a grid with no row or no column is refused with InvalidImage and no
\* stage runs on it.
C14_EmptyGridRejectedFirst ==
    IsEmptyGrid =>
        \/ pc = "find_bar_colours" /\ error = ""
        \/ /\ pc = "raised"
           /\ error = "InvalidImage"
           /\ top_colours = Unset
           /\ bar_mask = Unset

(***************************************************************************)
(* The scan for the annotation above a bar.                                *)
(***************************************************************************)
Clamp(v, lo, hi) == IF v < lo THEN lo ELSE IF v > hi THEN hi ELSE v

\* clamp(0.4 * h, 30, 100), truncated to an integer.
SearchWindow(h) == Clamp((4 * h) \div 10, 30, 100)

\* A pixel deviates from near-white when some channel is 245 or less.
Deviates(p) == \E c \in 1 .. 3 : p[c] <= 245

\* The segment of a row over the columns xa .. xb - 1 bears annotation.
Bearing(row, xa, xb) == \E x \in xa .. xb - 1 : Deviates(image_array[row][x])

\* The loop is at a bar and scans, or has scanned, above it.
Scanning == include_annotation /\ pc \in {"scan", "crop", "copy"}
Scanned == include_annotation /\ pc \in {"crop", "copy"}

\* C15: the scan above a bar of height h reads only the rows y1 - 1 down to
\* y1 - W, W = clamp(0.4 h, 30, 100) truncated, so the extended top is at most
\* W rows above the bar whatever lies above the window; for h = 50, W = 30.
C15_ScanStaysInWindow ==
    /\ MaxUp(0, 50) = 30
    /\ Scanning =>
          LET W == SearchWindow(Y2 - Y1)
          IN  /\ scanned \subseteq (Y1 - W) .. (Y1 - 1)
              /\ Y1 - new_y1 <= W
              /\ Y1 - y1 <= W
    /\ include_annotation =>
          \A k \in 1 .. Len(saved) :
              boxes[k][2] - saved[k].box[2] <= SearchWindow(boxes[k][4] - boxes[k][2])

\* The scan is over, the top was moved, and a row above the window also
\* bears annotation over the bar's columns.
C15_Witness ==
    /\ Scanned
    /\ y1 < Y1
    /\ \E row \in 0 .. Y1 - SearchWindow(Y2 - Y1) - 1 : Bearing(row, X1, X2)

\* C16: with include_annotation the new top is the smallest row of the window
\* inside the image that bears annotation over the bar's columns, background
\* rows in between notwithstanding, and the old top when there is none.
C16_TopIsTopmostHit ==
    Scanned =>
        LET W == SearchWindow(Y2 - Y1)
            hits == {row \in Max({0, Y1 - W}) .. Y1 - 1 : Bearing(row, X1, X2)}
        IN  y1 = IF hits = {} THEN Y1 ELSE Min(hits)

\* The new top is a row reached across background rows and an earlier hit.
C16_Witness ==
    /\ Scanned
    /\ \E hit, gap \in y1 + 1 .. Y1 - 1 :
          /\ gap < hit
          /\ Bearing(hit, X1, X2)
          /\ ~Bearing(gap, X1, X2)
    /\ ~Bearing(Y1 - 1, X1, X2)

\* C17: a scanned row counts as annotation iff some pixel of it in the
\* columns x1 .. x2 - 1 has a channel <= 245; pixels beside those columns
\* play no part.
C17_RowBearsIffDeviates ==
    (include_annotation /\ pc = "scan") =>
        /\ \A row \in scanned : Bearing(row, X1, X2) => new_y1 <= row
        /\ new_y1 # Y1 => new_y1 \in scanned /\ Bearing(new_y1, X1, X2)
        /\ offset > 1 => (new_y1 = Y1 - (offset - 1) <=> Bearing(Y1 - (offset - 1), X1, X2))

\* The row just read is background over the bar's columns and has a
\* deviating pixel right beside them.
C17_Witness ==
    /\ include_annotation
    /\ pc = "scan"
    /\ offset > 1
    /\ LET row == Y1 - (offset - 1)
       IN  /\ ~Bearing(row, X1, X2)
           /\ Deviates(image_array[row][X1 - 1]) \/ Deviates(image_array[row][X2])
           /\ new_y1 = Y1

\* C19: no step of the pipeline changes the pixel grid: its dimensions and
\* every pixel are after each step what they were before it.
C19_GridNeverChanged == [][image_array' = image_array]_vars

\* The pipeline ran to its end with the scan on and wrote a file.
C19_Witness ==
    /\ pc = "done"
    /\ include_annotation
    /\ saved # << >>
    /\ ~IsEmptyGrid

\* C20: the bars are written under the numbers 1, 2, ..., n without gap or
\* repeat, n being the number of surviving components; number k goes with the
\* k-th box from the left and its file is bar_k.
C20_OrdinalsLeftToRight ==
    /\ \A k \in 1 .. Len(saved) :
          /\ saved[k].path = <<"bar", k>>
          /\ saved[k].box[1] = boxes[k][1]
          /\ saved[k].box[3] = boxes[k][3]
          /\ saved[k].box[4] = boxes[k][4]
          /\ \A j \in 1 .. k - 1 : saved[j].box[1] <= saved[k].box[1]
    /\ pc = "done" =>
          Len(saved) = Cardinality({l \in 1 .. num_labels - 1 : Survives(l)})

\* Three bars were written; the labeler had numbered them in another order
\* than from the left.
C20_Witness ==
    /\ pc = "done"
    /\ Len(saved) = 3
    /\ stats[1].x > stats[2].x
    /\ saved[1].box[1] < saved[2].box[1] /\ saved[2].box[1] < saved[3].box[1]

\* C18: a call on an image returns the list of boxes that every earlier call
\* on the same image returned, whatever calls came in between.
C18_SameImageSameBoxes ==
    /\ \A r1, r2 \in results : r1.image = r2.image => r1.outcome = r2.outcome
    /\ (pc \in {"returned", "done", "raised"} \/ InLoop) =>
          \A r \in results : r.image = image_array => r.outcome = Outcome

\* The third call has returned two boxes with the same left edge; so had the
\* first, and the second was on another image.
C18_Witness ==
    /\ pc = "done"
    /\ run = 3
    /\ Len(boxes) = 2
    /\ boxes[1][1] = boxes[2][1]
    /\ \E r \in results : r.image = image_array /\ r.outcome = boxes
    /\ \E r \in results : r.image # image_array

(***************************************************************************)
(* The returned boxes and the components they come from.                   *)
(***************************************************************************)
\* The list the filter and the sort make of a stats array.
RECURSIVE Kept(_, _)
Kept(st, n) ==
    IF n = 0 THEN << >>
    ELSE IF PassesFilter(st[n]) THEN Append(Kept(st, n - 1), BoxOf(st[n]))
    ELSE Kept(st, n - 1)
ReturnedFor(st, n) == SortByLeft(Kept(st, n))

\* The stats array had the labeler numbered the components by perm.
Renumbered(perm) == [l \in 1 .. num_labels - 1 |-> stats[perm[l]]]

\* C21: the returned list is the same for every numbering of the components
\* of the closed mask, also when two survivors have the same left edge.
C21_SameListForEveryNumbering ==
    pc = "returned" =>
        \A perm \in Permutations(1 .. num_labels - 1) :
            ReturnedFor(Renumbered(perm), num_labels - 1) = boxes

\* The least half-open box around the pixels of label l.
ComponentBox(l) ==
    LET ps == WithLabel(l)
        xs == {p[2] : p \in ps}
        ys == {p[1] : p \in ps}
    IN  <<Min(xs), Min(ys), Max(xs) + 1, Max(ys) + 1>>

\* C22: each returned box is the bounding box of a component of the closed
\* mask of its own, a set of foreground pixels with a label other than 0.
C22_BoxesComeFromComponents ==
    pc = "returned" =>
        LET box == [l \in 1 .. num_labels - 1 |-> ComponentBox(l)]
        IN  /\ \A l \in 1 .. num_labels - 1 :
                  WithLabel(l) # {} /\ \A p \in WithLabel(l) : At(closed, p) = 1
            /\ \E f \in [1 .. Len(boxes) -> 1 .. num_labels - 1] :
                  /\ \A j, k \in 1 .. Len(boxes) : j # k => f[j] # f[k]
                  /\ \A k \in 1 .. Len(boxes) : boxes[k] = box[f[k]]

\* A box was returned and another component was left out.
C22_Witness ==
    /\ pc = "returned"
    /\ Len(boxes) >= 1
    /\ num_labels - 1 > Len(boxes)

\* C23: the closing keeps every pixel of the mask and adds none outside the
\* bounding box of the mask's pixels; an empty mask stays empty.
C23_ClosingStaysInBox ==
    MaskClosed =>
        /\ \A p \in Positions(closed) : At(bar_mask, p) => At(closed, p) = 1
        /\ \A p \in Positions(closed) :
              At(closed, p) = 1 =>
                  /\ MaskRows # {}
                  /\ Min(MaskRows) <= p[1] /\ p[1] <= Max(MaskRows)
                  /\ Min(MaskColumns) <= p[2] /\ p[2] <= Max(MaskColumns)

\* C30: no pixel with every channel >= 250 is in the mask built from the two
\* colours find_bar_colours returned.
C30_BackgroundNeverInMask ==
    MaskBuilt =>
        \A p \in Positions(image_array) :
            (\A c \in 1 .. 3 : At(image_array, p)[c] >= 250) => ~At(bar_mask, p)

(***************************************************************************)
(* Saving, the clipboard and the crop of a bar.                            *)
(***************************************************************************)
\* The messages about the clipboard printed so far.
CopyMessages == {m \in 1 .. Len(printed) : printed[m][1] \in {"Copied", "Failed to copy"}}

\* C26: every detected bar is saved whether or not the clipboard works.
\* Without the clipboard module no copy is attempted; a copy is attempted only
\* after its bar is saved, a failed copy raises nothing, and at the end every
\* box has its file, in order.
C26_SavedWhateverTheClipboard ==
    /\ pyperclipimg = "absent" => clipboard = << >> /\ CopyMessages = {}
    /\ pc = "copy" => Len(saved) = idx_bar /\ saved[idx_bar].path = OutPath(idx_bar)
    /\ \A m \in CopyMessages : printed[m][2] <= Len(saved)
    /\ saved # << >> => error = ""
    /\ (pc = "done" /\ boxes # << >>) =>
          /\ Len(saved) = Len(boxes)
          /\ \A k \in 1 .. Len(saved) : saved[k].path = OutPath(k)

\* The copy of bar 1 failed, and bars 2 and 3 were saved after that.
C26_Witness ==
    /\ pc = "done"
    /\ Len(saved) = 3
    /\ \E m, n \in 1 .. Len(printed) :
          /\ m < n
          /\ printed[m] = <<"Failed to copy", 1>>
          /\ printed[n] = <<"Saved", OutPath(3)>>

\* C28: the scan changes the top edge only: a saved box has the x1, x2 and y2
\* of the detected box, and its y1 is from 0 to the detected y1, also when the
\* window of the scan reaches above row 0.
C28_OnlyTopEdgeMoves ==
    \A k \in 1 .. Len(saved) :
        /\ saved[k].box[1] = boxes[k][1]
        /\ saved[k].box[3] = boxes[k][3]
        /\ saved[k].box[4] = boxes[k][4]
        /\ 0 <= saved[k].box[2]
        /\ saved[k].box[2] <= boxes[k][2]

\* A bar whose window reaches above row 0 was saved with its top moved to
\* row 0.
C28_Witness ==
    /\ include_annotation
    /\ Len(saved) = 1
    /\ boxes[1][2] - MaxUp(boxes[1][2], boxes[1][4]) < 0
    /\ saved[1].box[2] = 0
    /\ boxes[1][2] > 0

\* C29: a bar the scan is at is more than 100 high, so the window is 40% of
\* the height cut at 100, from 40 to 100 rows, and the floor of 30 is not used.
C29_WindowFromFortyToHundred ==
    Scanning =>
        /\ Y2 - Y1 > 100
        /\ max_up = Min({(4 * (Y2 - Y1)) \div 10, 100})
        /\ 40 <= max_up /\ max_up <= 100

\* The scan is at a bar 101 high with a window of 40 rows.
C29_Witness ==
    /\ pc = "scan"
    /\ Y2 - Y1 = 101
    /\ max_up = 40

\* No pixel of the mask is set.
EmptyMask == MaskBuilt /\ \A p \in Positions(bar_mask) : ~At(bar_mask, p)

\* C25: when no pixel is in the mask, the closed mask is empty too, the
\* labeler finds the background only, the filter has nothing to look at and
\* the empty list is returned; nothing is raised.
C25_EmptyMaskEmptyList ==
    EmptyMask =>
        /\ error = ""
        /\ MaskClosed => \A p \in Positions(closed) : At(closed, p) = 0
        /\ Labelled => num_labels = 1 /\ i = 1
        /\ boxes = << >>

\* The call has returned on an image some of whose pixels are not white and
\* none of whose pixels is near the two colours.
C25_Witness ==
    /\ pc = "returned"
    /\ EmptyMask
    /\ \E p \in Positions(image_array) : At(image_array, p) # White
    /\ boxes = << >>

\* The pixels of the argument that are not white: a channel is 250 or less.
NonWhite == {p \in Positions(img) : \E c \in 1 .. 3 : At(img, p)[c] <= 250}

\* a is the part of the argument in the rows ya .. yb and columns xa .. xb.
IsPartOfImg(a, ya, yb, xa, xb) ==
    /\ Height(a) = yb - ya + 1
    /\ Width(a) = xb - xa + 1
    /\ \A p \in Positions(a) : At(a, p) = img[p[1] + ya][p[2] + xa]

\* C27: crop_white_background returns the part of the image in the least box
\* around the pixels that are not white (white: every channel > 250), and the
\* image itself when every pixel is white; when (0, 0) is the only pixel
\* that is not white, it returns that one pixel.
C27_CroppedToNonWhite ==
    pc = "cropped" =>
        /\ NonWhite = {} => cropped = img
        /\ NonWhite # {} =>
              IsPartOfImg(cropped,
                          Min({p[1] : p \in NonWhite}), Max({p[1] : p \in NonWhite}),
                          Min({p[2] : p \in NonWhite}), Max({p[2] : p \in NonWhite}))
        /\ NonWhite = {<<0, 0>>} => cropped = [y \in {0} |-> [x \in {0} |-> img[0][0]]]

\* The mask the statements give when run once on the whole image.
SequentialMask == BarMask(image_array, top_colours[1], top_colours[2], threshold)

=============================================================================
